---- MODULE Spec2Model ----
(***************************************************************************)
(* Model of the insta-gift backend (src/next.config.ts): the gift          *)
(* recommendation endpoint (POST, form data) and the Instagram scrape      *)
(* endpoint (POST, JSON).  Each handler is a sequence of awaited steps;    *)
(* one action per step.  Texts are sequences of one-character strings.     *)
(***************************************************************************)
EXTENDS Integers, Sequences, FiniteSets, TLC

VARIABLES
  pc,               \* position of the recommendation handler
  formData,         \* the request: whether it parses as form data, and its fields
  age, budget,      \* Number(formData.get(..)) of the two fields
  base64Image,      \* result of compressImage
  profileAnalysis,  \* let profileAnalysis
  errors,           \* the console.error lines written so far
  genCall,          \* the arguments of the call of generateGiftRecommendations
  reply,            \* the inference API's outcome for the recommendation call
  response          \* the NextResponse of the recommendation endpoint

recVars == <<pc, formData, age, budget, base64Image, profileAnalysis, errors,
             genCall, reply, response>>

VARIABLES
  spc,              \* position of the scrape handler
  body,             \* the request body of the scrape endpoint
  browser,          \* the puppeteer browser: "none", "open" or "closed"
  urlsLeft,         \* post URLs still to visit
  posts,            \* const posts
  bio,              \* const bio
  failedStep,       \* the step whose rejection reached the catch of the scraper
  profileData,      \* what scrapeInstagramProfile returned
  scrapeResponse    \* the NextResponse of the scrape endpoint

scrapeVars == <<spc, body, browser, urlsLeft, posts, bio, failedStep, profileData,
                scrapeResponse>>

vars == <<recVars, scrapeVars>>

----------------------------------------------------------------------------
(* Bounds *)

\* longest inference reply, in text fragments
MaxReplyLen == 4

\* most post links found on the profile page
MaxPosts == 2

\* most characters of caption and biography text on the pages of one request
MaxText == 4

----------------------------------------------------------------------------
(* Texts *)

RECURSIVE SeqsUpTo(_, _)
\* all sequences over S of length at most n
SeqsUpTo(S, n) ==
  IF n = 0 THEN {<<>>}
  ELSE LET shorter == SeqsUpTo(S, n - 1)
       IN  shorter \cup {Append(s, c) : s \in {t \in shorter : Len(t) = n - 1}, c \in S}

\* JS numbers: the non-negative integers the form can carry, and NaN
NaN == -1

\* a JS value is falsy when it is 0, NaN, "" (here: the empty text)
FalsyNumber(n) == n = 0 \/ n = NaN

DigitValue(c) ==
  CASE c = "0" -> 0 [] c = "1" -> 1 [] c = "2" -> 2 [] c = "3" -> 3 [] c = "4" -> 4
    [] c = "5" -> 5 [] c = "6" -> 6 [] c = "7" -> 7 [] c = "8" -> 8 [] c = "9" -> 9

Digits == {"0", "1", "2", "3", "4", "5", "6", "7", "8", "9"}

RECURSIVE DecimalValue(_)
DecimalValue(s) ==
  IF s = <<>> THEN 0
  ELSE 10 * DecimalValue(SubSeq(s, 1, Len(s) - 1)) + DigitValue(s[Len(s)])

\* a form field: NoField is formData.get returning null
NoField == <<"null">>

\* Number(v): null and "" give 0, a run of digits its value, anything else NaN
Number(v) ==
  IF v = NoField THEN 0
  ELSE IF \A i \in 1..Len(v) : v[i] \in Digits THEN DecimalValue(v)
  ELSE NaN

DigitChar(d) ==
  CASE d = 0 -> "0" [] d = 1 -> "1" [] d = 2 -> "2" [] d = 3 -> "3" [] d = 4 -> "4"
    [] d = 5 -> "5" [] d = 6 -> "6" [] d = 7 -> "7" [] d = 8 -> "8" [] d = 9 -> "9"

RECURSIVE NumberToString(_)
\* String(n) of NaN or a non-negative integer
NumberToString(n) ==
  IF n = NaN THEN <<"N", "a", "N">>
  ELSE IF n < 10 THEN <<DigitChar(n)>>
  ELSE Append(NumberToString(n \div 10), DigitChar(n % 10))

\* s.replace(/[$,]/g, "")
StripCurrency(s) == SelectSeq(s, LAMBDA c : c \notin {"$", ","})

RECURSIVE LeadingDigits(_)
LeadingDigits(s) ==
  IF s = <<>> \/ s[1] \notin Digits THEN <<>>
  ELSE <<s[1]>> \o LeadingDigits(Tail(s))

\* parseFloat(s) on texts without sign, point or exponent
parseFloat(s) ==
  IF LeadingDigits(s) = <<>> THEN NaN ELSE DecimalValue(LeadingDigits(s))

----------------------------------------------------------------------------
(* encodeURIComponent *)

Letters ==
  {"a", "b", "c", "d", "e", "f", "g", "h", "i", "j", "k", "l", "m", "n", "o", "p",
   "q", "r", "s", "t", "u", "v", "w", "x", "y", "z",
   "A", "B", "C", "D", "E", "F", "G", "H", "I", "J", "K", "L", "M", "N", "O", "P",
   "Q", "R", "S", "T", "U", "V", "W", "X", "Y", "Z"}

\* the characters encodeURIComponent leaves as they are
Unreserved == Letters \cup Digits \cup {"-", "_", ".", "!", "~", "*", "'", "(", ")"}

\* the %XX escape of the ASCII characters the model's names use
PercentEscape(c) ==
  CASE c = " " -> <<"%", "2", "0">>
    [] c = "&" -> <<"%", "2", "6">>
    [] c = "," -> <<"%", "2", "C">>
    [] c = "#" -> <<"%", "2", "3">>
    [] c = "$" -> <<"%", "2", "4">>

\* mutant: no character is escaped
EncodeCharPlain(c) == <<c>>

EncodeChar(c) == IF c \in Unreserved THEN <<c>> ELSE PercentEscape(c)

RECURSIVE encodeURIComponent(_)
encodeURIComponent(s) ==
  IF s = <<>> THEN <<>> ELSE EncodeChar(s[1]) \o encodeURIComponent(Tail(s))

AmazonPrefix == "https://www.amazon.com/s?k="
EtsyPrefix == "https://www.etsy.com/search?q="

\* a template literal `${prefix}${encoded}`: the fixed prefix and what follows it
Link(prefix, encoded) == [prefix |-> prefix, query |-> encoded]

----------------------------------------------------------------------------
(* generateGiftRecommendations: the reply text *)

\* The reply text is a sequence of fragments.  "[", "]", "," and " " are the
\* characters themselves; the other three stand for these JSON object texts:
\*   "o"  {"name":"Tea & Co!"}
\*   "u"  {}
\*   "t"  {"name":"Tea & Co!",}      (a trailing comma before the brace)
Fragments == {"[", "]", ",", " ", "o", "u", "t"}

ObjectName == <<"T", "e", "a", " ", "&", " ", "C", "o", "!">>

GiftSuggestion == <<"G", "i", "f", "t", " ", "s", "u", "g", "g", "e", "s", "t", "i", "o", "n">>

NoRecommendations == <<"N", "o", " ", "r", "e", "c", "o", "m", "m", "e", "n", "d", "a", "t", "i", "o", "n", "s", " ", "a", "v", "a", "i", "l", "a", "b", "l", "e">>

GiftQuery == <<"g", "i", "f", "t">>

ReplyTexts == SeqsUpTo(Fragments, MaxReplyLen)

IsSpace(c) == c = " "

RECURSIVE TrimLeft(_)
TrimLeft(s) == IF s # <<>> /\ IsSpace(s[1]) THEN TrimLeft(Tail(s)) ELSE s

RECURSIVE TrimRight(_)
TrimRight(s) ==
  IF s # <<>> /\ IsSpace(s[Len(s)]) THEN TrimRight(SubSeq(s, 1, Len(s) - 1)) ELSE s

\* String.prototype.trim
Trim(s) == TrimRight(TrimLeft(s))

\* recommendationsText.match(/\[[\s\S]*\]/): from the first "[" to the last "]"
JsonMatch(s) ==
  LET opens  == {i \in 1..Len(s) : s[i] = "["}
      closes == {i \in 1..Len(s) : s[i] = "]"}
  IN  IF opens = {} \/ closes = {} THEN [found |-> FALSE, text |-> <<>>]
      ELSE LET first == CHOOSE i \in opens : \A j \in opens : i <= j
               last  == CHOOSE i \in closes : \A j \in closes : j <= i
           IN  IF first < last
               THEN [found |-> TRUE, text |-> SubSeq(s, first, last)]
               ELSE [found |-> FALSE, text |-> <<>>]

\* first index >= i of s that is not whitespace (Len(s) + 1 when there is none)
RECURSIVE SkipSpace(_, _)
SkipSpace(s, i) == IF i <= Len(s) /\ IsSpace(s[i]) THEN SkipSpace(s, i + 1) ELSE i

RECURSIVE DropCommaBeforeBrace(_)
\* .replace(/,\s*}/g, "}"): the only "}" that follows a comma and whitespace is
\* the one inside "t", whose text becomes that of "o"
DropCommaBeforeBrace(s) ==
  IF s = <<>> THEN <<>>
  ELSE IF s[1] = "t" THEN <<"o">> \o DropCommaBeforeBrace(Tail(s))
  ELSE <<s[1]>> \o DropCommaBeforeBrace(Tail(s))

RECURSIVE CollapseSpace(_)
\* .replace(/\s+/g, " ")
CollapseSpace(s) ==
  IF s = <<>> THEN <<>>
  ELSE IF IsSpace(s[1])
       THEN <<" ">> \o CollapseSpace(SubSeq(s, SkipSpace(s, 1), Len(s)))
       ELSE <<s[1]>> \o CollapseSpace(Tail(s))

RECURSIVE TightenCommas(_)
\* .replace(/\s*,\s*/g, ",")
TightenCommas(s) ==
  IF s = <<>> THEN <<>>
  ELSE LET k == SkipSpace(s, 1)
       IN  IF k <= Len(s) /\ s[k] = ","
           THEN <<",">> \o TightenCommas(SubSeq(s, SkipSpace(s, k + 1), Len(s)))
           ELSE <<s[1]>> \o TightenCommas(Tail(s))

\* the replace chain of lines 159-171; the steps on quotes, newlines, colons and
\* apostrophes change no text built from Fragments
CleanUp(s) == TightenCommas(CollapseSpace(DropCommaBeforeBrace(s)))

\* JSON values: an object (with or without a "name" member) or an array
JsonObject(hasName) == [type |-> "object", hasName |-> hasName, elems |-> <<>>]
JsonArray(elems) == [type |-> "array", hasName |-> FALSE, elems |-> elems]

ParseError == [ok |-> FALSE, next |-> 0, val |-> JsonObject(FALSE)]
Parsed(val, next) == [ok |-> TRUE, next |-> next, val |-> val]

RECURSIVE ParseValue(_, _), ParseElements(_, _, _)
\* one JSON value starting at s[i], after optional whitespace
ParseValue(s, i) ==
  LET j == SkipSpace(s, i)
  IN  IF j > Len(s) THEN ParseError
      ELSE IF s[j] = "o" THEN Parsed(JsonObject(TRUE), j + 1)
      ELSE IF s[j] = "u" THEN Parsed(JsonObject(FALSE), j + 1)
      ELSE IF s[j] = "["
           THEN LET k == SkipSpace(s, j + 1)
                IN  IF k <= Len(s) /\ s[k] = "]"
                    THEN Parsed(JsonArray(<<>>), k + 1)
                    ELSE ParseElements(s, j + 1, <<>>)
      ELSE ParseError

\* the elements of an array, the first starting at s[i], up to its "]"
ParseElements(s, i, acc) ==
  LET r == ParseValue(s, i)
  IN  IF ~r.ok THEN ParseError
      ELSE LET k == SkipSpace(s, r.next)
           IN  IF k > Len(s) THEN ParseError
               ELSE IF s[k] = "," THEN ParseElements(s, k + 1, Append(acc, r.val))
               ELSE IF s[k] = "]" THEN Parsed(JsonArray(Append(acc, r.val)), k + 1)
               ELSE ParseError

\* JSON.parse(s): a value and nothing but whitespace after it, else a SyntaxError
JsonParse(s) ==
  LET r == ParseValue(s, 1)
  IN  IF r.ok /\ SkipSpace(s, r.next) > Len(s) THEN r ELSE ParseError

\* rec.name of a parsed element: arrays and nameless objects have none
RecName(rec) == IF rec.hasName THEN ObjectName ELSE <<>>

\* the arrow function of recommendations.map (lines 175-186); the fragments carry
\* no description, price or match_reason, so each takes its default
MapRecommendation(rec, b) ==
  [name         |-> IF RecName(rec) # <<>> THEN RecName(rec) ELSE GiftSuggestion,
   description  |-> "",
   price        |-> parseFloat(StripCurrency(NumberToString(b))),
   match_reason |-> "",
   amazon_link  |-> Link(AmazonPrefix, encodeURIComponent(RecName(rec))),
   etsy_link    |-> Link(EtsyPrefix, encodeURIComponent(RecName(rec)))]

\* mutant: the fallback priced 0 instead of the budget
FallbackPriceZero(b) ==
  <<[name         |-> NoRecommendations,
     description  |-> "No personalized gift recommendations available.",
     price        |-> 0,
     match_reason |-> "No profile analysis available.",
     amazon_link  |-> Link(AmazonPrefix, encodeURIComponent(GiftQuery)),
     etsy_link    |-> Link(EtsyPrefix, encodeURIComponent(GiftQuery))]>>

\* the fallback of the catch block (lines 190-201)
Fallback(b) ==
  <<[name         |-> NoRecommendations,
     description  |-> "No personalized gift recommendations available.",
     price        |-> b,
     match_reason |-> "No profile analysis available.",
     amazon_link  |-> Link(AmazonPrefix, encodeURIComponent(GiftQuery)),
     etsy_link    |-> Link(EtsyPrefix, encodeURIComponent(GiftQuery))]>>

\* the outcomes of groq.chat.completions.create for the recommendation call:
\* it throws, it answers with no choice, with a null content, or with a text
Replies ==
  {[kind |-> k, text |-> <<>>] : k \in {"throws", "nochoice", "null"}}
    \cup {[kind |-> "text", text |-> t] : t \in ReplyTexts}

\* mutant: no default for a reply without content
RecommendationsTextNoDefault(r) == Trim(r.text)

\* response.choices[0].message.content?.trim() || "[]"   (lines 149-150)
RecommendationsText(r) ==
  IF r.kind = "text" /\ Trim(r.text) # <<>> THEN Trim(r.text) ELSE <<"[", "]">>

\* lines 153-171: the bracketed part when there is one, then the clean-up
TextToParse(r) ==
  LET t == RecommendationsText(r)
      m == JsonMatch(t)
  IN  CleanUp(IF m.found THEN m.text ELSE t)

\* JSON.parse(recommendationsText) of line 173 for a reply
ParsedReply(r) == JsonParse(TextToParse(r))

RECURSIVE MapAll(_, _)
MapAll(elems, b) ==
  IF elems = <<>> THEN <<>>
  ELSE <<MapRecommendation(elems[1], b)>> \o MapAll(Tail(elems), b)

\* generateGiftRecommendations(age, budget, profileAnalysis) given the API's
\* outcome: what it returns, and whether its catch block ran
\* the try block throws when the call fails, choices[0] is undefined, JSON.parse
\* throws, or the parsed value has no map method (it is not an array)
generateGiftRecommendations(r, b) ==
  LET parsed == ParsedReply(r)
  IN  IF r.kind \in {"throws", "nochoice"} \/ ~parsed.ok \/ parsed.val.type # "array"
      THEN [caught |-> TRUE, result |-> Fallback(b)]
      ELSE [caught |-> FALSE, result |-> MapAll(parsed.val.elems, b)]

----------------------------------------------------------------------------
(* The recommendation endpoint *)

\* NextResponse.json(body, {status})
ErrorResponse(msg, status) ==
  [status |-> status, error |-> msg, hasRecommendations |-> FALSE,
   recommendations |-> <<>>]
RecommendationsResponse(recs) ==
  [status |-> 200, error |-> "", hasRecommendations |-> TRUE, recommendations |-> recs]
NoResponse ==
  [status |-> 0, error |-> "", hasRecommendations |-> FALSE, recommendations |-> <<>>]

\* the values the age field and the budget field are sent with: absent, empty,
\* zero, no number, and a positive number
AgeValues == {NoField, <<>>, <<"0">>, <<"x">>, <<"3", "0">>}
BudgetValues == {NoField, <<>>, <<"0">>, <<"x">>, <<"2", "5">>}

\* formData.get("instagram-grid"): no file, a file of no bytes, a file with bytes
ImageFiles == {"null", "empty", "image"}

NoCall == [called |-> FALSE, age |-> 0, budget |-> 0, profileAnalysis |-> ""]
NoReply == [kind |-> "none", text |-> <<>>]

Placeholder == "No profile analysis available."
AnalysisText == "They hike and brew tea."

InitRec ==
  /\ pc = "idle"
  /\ formData = [parsed |-> FALSE, age |-> NoField, budget |-> NoField, image |-> "null"]
  /\ age = 0
  /\ budget = 0
  /\ base64Image = ""
  /\ profileAnalysis = ""
  /\ errors = {}
  /\ genCall = NoCall
  /\ reply = NoReply
  /\ response = NoResponse

\* the outer catch of POST (lines 252-258)
Respond500 ==
  /\ errors' = errors \cup {"[API] Error:"}
  /\ response' = ErrorResponse("Failed to get gift recommendations", 500)
  /\ pc' = "done"

\* mutant: && where the code has ||
MissingFieldsBoth(a, b) == FalsyNumber(a) /\ FalsyNumber(b)

\* the required-field test of line 218
MissingFields(a, b) == FalsyNumber(a) \/ FalsyNumber(b)

\* lines 206-226: read the form, convert the fields, reject a falsy age or budget
PostRecommend ==
  /\ pc = "idle"
  /\ \E fd \in {[parsed |-> FALSE, age |-> NoField, budget |-> NoField, image |-> "null"]}
            \cup [parsed : {TRUE}, age : AgeValues, budget : BudgetValues,
                  image : ImageFiles] :
       /\ formData' = fd
       /\ IF ~fd.parsed
          THEN /\ Respond500
               /\ UNCHANGED <<age, budget>>
          ELSE /\ age' = Number(fd.age)
               /\ budget' = Number(fd.budget)
               /\ errors' = errors
               /\ IF MissingFields(Number(fd.age), Number(fd.budget))
                  THEN /\ response' = ErrorResponse("Missing required fields", 400)
                       /\ pc' = "done"
                  ELSE /\ response' = response
                       /\ pc' = IF fd.image # "null" THEN "compress" ELSE "generate"
  /\ UNCHANGED <<base64Image, profileAnalysis, genCall, reply>>
  /\ UNCHANGED scrapeVars

\* lines 228-230: imageFile.arrayBuffer(), which may reject, then compressImage
\* (lines 50-78): "" for an empty buffer or when sharp throws, else the base64 text
CompressImage ==
  /\ pc = "compress"
  /\ \E readOk \in BOOLEAN, sharpOk \in BOOLEAN :
       IF ~readOk
       THEN /\ Respond500
            /\ UNCHANGED base64Image
       ELSE /\ pc' = "analyze"
            /\ response' = response
            /\ IF formData.image = "empty"
               THEN /\ base64Image' = ""
                    /\ errors' = errors \cup {"[Image Compression] Empty buffer received"}
               ELSE IF sharpOk
               THEN /\ base64Image' = "base64"
                    /\ errors' = errors
               ELSE /\ base64Image' = ""
                    /\ errors' = errors \cup {"[Image Compression] Error:"}
  /\ UNCHANGED <<formData, age, budget, profileAnalysis, genCall, reply>>
  /\ UNCHANGED scrapeVars

\* what the analysis call can answer: it throws, or its content is empty or a text
AnalysisOutcomes == {"throws", "empty", "text"}

\* analyzeImage (lines 80-115); the prompt does not depend on base64Image
AnalyzeImage ==
  /\ pc = "analyze"
  /\ \E outcome \in AnalysisOutcomes :
       /\ profileAnalysis' = IF outcome = "text" THEN AnalysisText ELSE ""
       /\ errors' = IF outcome = "throws"
                    THEN errors \cup {"[Image Analysis] Error:"} ELSE errors
  /\ pc' = "generate"
  /\ UNCHANGED <<formData, age, budget, base64Image, genCall, reply, response>>
  /\ UNCHANGED scrapeVars

\* mutant: the analysis passed on as it is
AnalysisArgumentRaw(a) == a

\* profileAnalysis || "No profile analysis available."   (line 247)
AnalysisArgument(a) == IF a = "" THEN Placeholder ELSE a

\* lines 244-251: generateGiftRecommendations and the 200 response
Generate ==
  /\ pc = "generate"
  /\ \E r \in Replies :
       \E recommendations \in {generateGiftRecommendations(r, budget)} :
         /\ reply' = r
         /\ genCall' = [called |-> TRUE, age |-> age, budget |-> budget,
                        profileAnalysis |-> AnalysisArgument(profileAnalysis)]
         /\ errors' = IF recommendations.caught
                      THEN errors \cup {"Error generating recommendations:"}
                      ELSE errors
         /\ response' = RecommendationsResponse(recommendations.result)
  /\ pc' = "done"
  /\ UNCHANGED <<formData, age, budget, base64Image, profileAnalysis>>
  /\ UNCHANGED scrapeVars


----------------------------------------------------------------------------
(* The scrape endpoint: texts of the scraped pages *)

\* the characters of captions and biographies: a hashtag sign, a blank, a lower
\* case and an upper case letter
PageChars == {"#", " ", "a", "B"}

UpperCase ==
  <<"A", "B", "C", "D", "E", "F", "G", "H", "I", "J", "K", "L", "M", "N", "O", "P",
    "Q", "R", "S", "T", "U", "V", "W", "X", "Y", "Z">>
LowerCase ==
  <<"a", "b", "c", "d", "e", "f", "g", "h", "i", "j", "k", "l", "m", "n", "o", "p",
    "q", "r", "s", "t", "u", "v", "w", "x", "y", "z">>

LowerChar(c) ==
  IF \E i \in 1..26 : UpperCase[i] = c
  THEN LowerCase[CHOOSE i \in 1..26 : UpperCase[i] = c]
  ELSE c

\* String.prototype.toLowerCase
toLowerCase(s) == [i \in 1..Len(s) |-> LowerChar(s[i])]

\* \w of a regular expression
IsWordChar(c) == c \in Letters \cup Digits \cup {"_"}

\* first index >= i of s that is not a word character
RECURSIVE SkipWord(_, _)
SkipWord(s, i) == IF i <= Len(s) /\ IsWordChar(s[i]) THEN SkipWord(s, i + 1) ELSE i

\* first index >= i of s that is a word character
RECURSIVE SkipNonWord(_, _)
SkipNonWord(s, i) ==
  IF i <= Len(s) /\ ~IsWordChar(s[i]) THEN SkipNonWord(s, i + 1) ELSE i

RECURSIVE MatchFrom(_, _, _)
\* the matches of /<sign>[\w]+/g in s from index i on
MatchFrom(s, sign, i) ==
  IF i > Len(s) THEN <<>>
  ELSE IF s[i] = sign /\ SkipWord(s, i + 1) > i + 1
       THEN <<SubSeq(s, i, SkipWord(s, i + 1) - 1)>>
              \o MatchFrom(s, sign, SkipWord(s, i + 1))
       ELSE MatchFrom(s, sign, i + 1)

\* caption.match(/#[\w]+/g) || []  and  caption.match(/@[\w]+/g) || []
MatchAll(s, sign) == MatchFrom(s, sign, 1)

RECURSIVE SplitFrom(_, _)
\* the pieces of s from index i on, between maximal runs of non-word characters
SplitFrom(s, i) ==
  LET e == SkipWord(s, i)
  IN  IF e > Len(s) THEN <<SubSeq(s, i, Len(s))>>
      ELSE <<SubSeq(s, i, e - 1)>> \o SplitFrom(s, SkipNonWord(s, e))

\* s.split(/\W+/): a leading or trailing separator leaves an empty piece
Split(s) == SplitFrom(s, 1)

\* mutant: >= where the code has >
LongWordAtLeast3(word) == Len(word) >= 3

\* the predicate of .filter((word) => word.length > 3)
LongWord(word) == Len(word) > 3

\* s.toLowerCase().split(/\W+/).filter((word) => word.length > 3)
Keywords(s) == SelectSeq(Split(toLowerCase(s)), LongWord)

\* the element type of posts (lines 318-324); image and like count are left out
PostData(caption) ==
  [caption  |-> caption,
   hashtags |-> MatchAll(caption, "#"),
   mentions |-> MatchAll(caption, "@")]

InSeq(x, seq) == \E i \in 1..Len(seq) : seq[i] = x

\* Set.prototype.add on a set kept in insertion order
SetAdd(set, x) == IF InSeq(x, set) THEN set ELSE Append(set, x)

RECURSIVE AddAll(_, _)
AddAll(set, xs) == IF xs = <<>> THEN set ELSE AddAll(SetAdd(set, xs[1]), Tail(xs))

\* mutant: the sign is kept
TagInterestKeepSign(tag) == toLowerCase(tag)

\* tag.slice(1).toLowerCase()
TagInterest(tag) == toLowerCase(Tail(tag))

RECURSIVE AddHashtags(_, _)
\* lines 435-439
AddHashtags(set, ps) ==
  IF ps = <<>> THEN set
  ELSE AddHashtags(
         AddAll(set, [i \in 1..Len(ps[1].hashtags) |-> TagInterest(ps[1].hashtags[i])]),
         Tail(ps))

RECURSIVE AddCaptionKeywords(_, _)
\* lines 442-448
AddCaptionKeywords(set, ps) ==
  IF ps = <<>> THEN set
  ELSE AddCaptionKeywords(AddAll(set, Keywords(ps[1].caption)), Tail(ps))

\* lines 432-455 and Array.from(interests)
Interests(profile) ==
  AddAll(AddCaptionKeywords(AddHashtags(<<>>, profile.posts), profile.posts),
         Keywords(profile.bio))

----------------------------------------------------------------------------
(* The scrape endpoint *)

\* .slice(0, 10) of the post links
PostLimit == 10

\* request.json(): text that is no JSON, the JSON value null, or another JSON
\* value, whose username is absent, empty or a name
Bodies ==
  {[kind |-> "invalid", hasUsername |-> FALSE, username |-> ""],
   [kind |-> "null", hasUsername |-> FALSE, username |-> ""],
   [kind |-> "json", hasUsername |-> FALSE, username |-> ""],
   [kind |-> "json", hasUsername |-> TRUE, username |-> ""],
   [kind |-> "json", hasUsername |-> TRUE, username |-> "alice"]}

NoBody == [kind |-> "none", hasUsername |-> FALSE, username |-> ""]

Profile(username, b, ps) == [username |-> username, bio |-> b, posts |-> ps]
NoProfile == Profile("", <<>>, <<>>)

Null == [isNull |-> TRUE, profile |-> NoProfile]
NotNull(profile) == [isNull |-> FALSE, profile |-> profile]

ScrapeError(msg, status) ==
  [status |-> status, error |-> msg, hasProfile |-> FALSE, profile |-> NoProfile,
   interests |-> <<>>, analysis |-> ""]
ScrapeOk(profile, interests, analysis) ==
  [status |-> 200, error |-> "", hasProfile |-> TRUE, profile |-> profile,
   interests |-> interests, analysis |-> analysis]
NoScrapeResponse == ScrapeError("", 0)

InitScrape ==
  /\ spc = "idle"
  /\ body = NoBody
  /\ browser = "none"
  /\ urlsLeft = 0
  /\ posts = <<>>
  /\ bio = <<>>
  /\ failedStep = "none"
  /\ profileData = Null
  /\ scrapeResponse = NoScrapeResponse

\* const { username } = await request.json() throws: the body is no JSON, or it
\* is null, which cannot be destructured
BodyThrows(b) == b.kind \in {"invalid", "null"}

\* mutant: only an absent username is rejected
NoUsernameAbsentOnly(b) == ~b.hasUsername

\* the test !username of line 411
NoUsername(b) == ~b.hasUsername \/ b.username = ""

\* lines 408-418 and the outer catch of lines 467-473
PostScrape ==
  /\ spc = "idle"
  /\ \E b \in Bodies :
       /\ body' = b
       /\ IF BodyThrows(b)
          THEN /\ scrapeResponse' = ScrapeError("Failed to fetch Instagram data", 500)
               /\ spc' = "done"
          ELSE IF NoUsername(b)
          THEN /\ scrapeResponse' = ScrapeError("Username is required", 400)
               /\ spc' = "done"
          ELSE /\ scrapeResponse' = scrapeResponse
               /\ spc' = "launch"
  /\ UNCHANGED <<browser, urlsLeft, posts, bio, failedStep, profileData>>
  /\ UNCHANGED recVars

\* mutant: the null profile reaches the outer catch
NullProfileResponse500 == ScrapeError("Failed to fetch Instagram data", 500)

\* what the handler answers when scrapeInstagramProfile returned null (lines 421-426)
NullProfileResponse == ScrapeError("Failed to fetch Instagram data", 404)

\* the browser after the catch block of the scraper (lines 344-347) has run
BrowserAfterCatch(b) == b

\* a step of the scraper rejects: the catch block returns null (lines 344-347)
\* and the handler answers for a null profile
ScrapeFails(step) ==
  /\ failedStep' = step
  /\ profileData' = Null
  /\ browser' = BrowserAfterCatch(browser)
  /\ scrapeResponse' = NullProfileResponse
  /\ spc' = "done"
  /\ UNCHANGED <<body, urlsLeft, posts, bio>>

\* puppeteer.launch (lines 282-284)
Launch ==
  /\ spc = "launch"
  /\ \/ /\ browser' = "open"
        /\ spc' = "navigate"
        /\ UNCHANGED <<body, urlsLeft, posts, bio, failedStep, profileData,
                       scrapeResponse>>
     \/ ScrapeFails("launch")
  /\ UNCHANGED recVars

\* newPage, setViewport and page.goto of the profile (lines 286-292)
Navigate ==
  /\ spc = "navigate"
  /\ \/ /\ spc' = "wait"
        /\ UNCHANGED <<body, browser, urlsLeft, posts, bio, failedStep, profileData,
                       scrapeResponse>>
     \/ ScrapeFails("goto")
  /\ UNCHANGED recVars

\* page.waitForSelector("article a", {timeout: 5000}) (line 295)
WaitForSelector ==
  /\ spc = "wait"
  /\ \/ /\ spc' = "urls"
        /\ UNCHANGED <<body, browser, urlsLeft, posts, bio, failedStep, profileData,
                       scrapeResponse>>
     \/ ScrapeFails("waitForSelector")
  /\ UNCHANGED recVars

Min(a, b) == IF a < b THEN a ELSE b

\* the evaluation of the post links (lines 298-302)
EvaluatePostUrls ==
  /\ spc = "urls"
  /\ \/ \E n \in 0..Min(MaxPosts, PostLimit) :
          /\ urlsLeft' = n
          /\ spc' = "posts"
          /\ UNCHANGED <<body, browser, posts, bio, failedStep, profileData,
                         scrapeResponse>>
     \/ ScrapeFails("postUrls")
  /\ UNCHANGED recVars

RECURSIVE CaptionChars(_)
CaptionChars(ps) ==
  IF ps = <<>> THEN 0 ELSE Len(ps[1].caption) + CaptionChars(Tail(ps))

\* the page texts still within the bound
PageTexts == SeqsUpTo(PageChars, MaxText - CaptionChars(posts))

\* one round of the loop of lines 310-329
ScrapePost ==
  /\ spc = "posts"
  /\ urlsLeft > 0
  /\ \/ \E caption \in PageTexts :
          /\ posts' = Append(posts, PostData(caption))
          /\ urlsLeft' = urlsLeft - 1
          /\ UNCHANGED <<spc, body, browser, bio, failedStep, profileData,
                         scrapeResponse>>
     \/ ScrapeFails("post")
  /\ UNCHANGED recVars

\* page.goto of the profile and the evaluation of the biography (lines 332-335)
ScrapeBio ==
  /\ spc = "posts"
  /\ urlsLeft = 0
  /\ \/ \E b \in PageTexts :
          /\ bio' = b
          /\ spc' = "close"
          /\ UNCHANGED <<body, browser, urlsLeft, posts, failedStep, profileData,
                         scrapeResponse>>
     \/ ScrapeFails("bio")
  /\ UNCHANGED recVars

\* browser.close() and the return of the profile (lines 337-343)
CloseBrowser ==
  /\ spc = "close"
  /\ \/ /\ browser' = "closed"
        /\ profileData' = NotNull(Profile(body.username, bio, posts))
        /\ spc' = "analyze"
        /\ UNCHANGED <<body, urlsLeft, posts, bio, failedStep, scrapeResponse>>
     \/ ScrapeFails("close")
  /\ UNCHANGED recVars

\* analyzeProfile (lines 350-405), then the interests and the 200 response
\* (lines 429-466)
AnalyzeProfile ==
  /\ spc = "analyze"
  /\ \E outcome \in AnalysisOutcomes :
       scrapeResponse' =
         ScrapeOk(profileData.profile, Interests(profileData.profile),
                  IF outcome = "text" THEN AnalysisText ELSE "")
  /\ spc' = "done"
  /\ UNCHANGED <<body, browser, urlsLeft, posts, bio, failedStep, profileData>>
  /\ UNCHANGED recVars

----------------------------------------------------------------------------
(* Specifications: the two handlers share no state, each is checked alone *)

Init == InitRec /\ InitScrape

NextRec == PostRecommend \/ CompressImage \/ AnalyzeImage \/ Generate

NextScrape ==
  \/ PostScrape
  \/ Launch
  \/ Navigate
  \/ WaitForSelector
  \/ EvaluatePostUrls
  \/ ScrapePost
  \/ ScrapeBio
  \/ CloseBrowser
  \/ AnalyzeProfile

SpecRec == Init /\ [][NextRec]_vars

SpecScrape == Init /\ [][NextScrape]_vars

----------------------------------------------------------------------------
(* Properties of the recommendation endpoint (SpecRec) *)

MissingFieldsError == ErrorResponse("Missing required fields", 400)

\* C1: a form-data request to the recommendation endpoint that lacks the age
\* field or the budget field is answered with the 400 error object
\* {error: "Missing required fields"}, never with a 200 or a 500.
C1_MissingFieldIs400 ==
  (pc = "done" /\ formData.parsed
     /\ (formData.age = NoField \/ formData.budget = NoField))
    => response = MissingFieldsError

C1_Witness ==
  /\ pc = "done"
  /\ formData.parsed
  /\ formData.age = NoField
  /\ formData.budget = <<"2", "5">>
  /\ response.status = 400

\* the text the function hands to JSON.parse is no JSON, or no JSON array
Unparseable(r) ==
  LET parsed == ParsedReply(r)
  IN  ~parsed.ok \/ parsed.val.type # "array"

TheFallback(b) ==
  [name         |-> NoRecommendations,
   description  |-> "No personalized gift recommendations available.",
   price        |-> b,
   match_reason |-> "No profile analysis available.",
   amazon_link  |-> [prefix |-> "https://www.amazon.com/s?k=", query |-> GiftQuery],
   etsy_link    |-> [prefix |-> "https://www.etsy.com/search?q=", query |-> GiftQuery]]

\* C2: when the reply text of the recommendation call cannot be parsed as a JSON
\* array (after the function's extraction of the bracketed part and its
\* clean-up), the result is exactly the one fallback recommendation, priced at
\* the requested budget, and the endpoint answers 200 with it.
C2_UnparseableGivesFallback ==
  (pc = "done" /\ reply.kind = "text" /\ Unparseable(reply))
    => /\ response.status = 200
       /\ response.hasRecommendations
       /\ response.recommendations = <<TheFallback(budget)>>
       /\ response.recommendations[1].price = Number(formData.budget)

C2_Witness ==
  /\ pc = "done"
  /\ reply.kind = "text"
  /\ reply.text = <<"[", "o", ",">>
  /\ Len(response.recommendations) = 1
  /\ response.recommendations[1].price = 25
  /\ age = 30

\* the characters a percent-encoded text is made of
EncodedChars == Unreserved \cup {"%"} \cup Digits \cup {"A", "B", "C", "D", "E", "F"}

\* the character a %XX escape stands for
Unescape(h1, h2) ==
  CASE h1 = "2" /\ h2 = "0" -> " "
    [] h1 = "2" /\ h2 = "3" -> "#"
    [] h1 = "2" /\ h2 = "4" -> "$"
    [] h1 = "2" /\ h2 = "6" -> "&"
    [] h1 = "2" /\ h2 = "C" -> ","
    [] OTHER -> "?"

RECURSIVE PercentDecode(_)
PercentDecode(q) ==
  IF q = <<>> THEN <<>>
  ELSE IF q[1] = "%" /\ Len(q) >= 3
       THEN <<Unescape(q[2], q[3])>> \o PercentDecode(SubSeq(q, 4, Len(q)))
       ELSE <<q[1]>> \o PercentDecode(Tail(q))

\* q is the percent-encoding of text: only unreserved characters and escapes,
\* and it decodes to text
IsPercentEncodingOf(q, text) ==
  /\ \A i \in 1..Len(q) : q[i] \in EncodedChars
  /\ PercentDecode(q) = text

\* both links of rec are the retailer prefixes followed by q
LinksAre(rec, q) ==
  /\ rec.amazon_link = [prefix |-> "https://www.amazon.com/s?k=", query |-> q]
  /\ rec.etsy_link = [prefix |-> "https://www.etsy.com/search?q=", query |-> q]

CompressionFailed ==
  \/ "[Image Compression] Error:" \in errors
  \/ "[Image Compression] Empty buffer received" \in errors

AnalysisCallFailed == "[Image Analysis] Error:" \in errors

\* C9 as stated: with valid fields and an image, after a failure of the
\* compression or of the analysis call the analysis is empty, the
\* recommendation call is made with the placeholder text, and the answer is a
\* 200 with a recommendations array.
C9_FailureGivesPlaceholder ==
  (pc = "done" /\ (CompressionFailed \/ AnalysisCallFailed))
    => /\ profileAnalysis = ""
       /\ genCall.called
       /\ genCall.profileAnalysis = "No profile analysis available."
       /\ response.status = 200
       /\ response.hasRecommendations

\* C9 amended: a failure of the compression or of the analysis call is not
\* propagated: the recommendation call is still made and the answer is a 200
\* with a recommendations array.  After a failed analysis call the analysis is
\* empty and the placeholder text is passed.  After a failed compression the
\* image is empty, the analysis call is still made, and its text is passed when
\* it gives one, the placeholder when it gives none.
C9_FailureNotPropagated ==
  (pc = "done" /\ (CompressionFailed \/ AnalysisCallFailed))
    => /\ genCall.called
       /\ genCall.age = Number(formData.age)
       /\ genCall.budget = Number(formData.budget)
       /\ response.status = 200
       /\ response.hasRecommendations
       /\ AnalysisCallFailed => profileAnalysis = ""
       /\ CompressionFailed => base64Image = ""
       /\ genCall.profileAnalysis =
            IF profileAnalysis = "" THEN "No profile analysis available."
            ELSE profileAnalysis

C9_Witness ==
  /\ pc = "done"
  /\ "[Image Compression] Error:" \in errors
  /\ profileAnalysis = AnalysisText
  /\ genCall.profileAnalysis = AnalysisText
  /\ response.status = 200

\* C10: when the reply of the recommendation call has no content (null or the
\* empty text) or its content is the empty JSON array, the result is the empty
\* list and the endpoint answers 200 with no recommendations: neither the
\* fallback nor an error.
C10_EmptyReplyGivesEmptyList ==
  (pc = "done"
     /\ \/ reply.kind = "null"
        \/ reply.kind = "text" /\ reply.text \in {<<>>, <<"[", "]">>})
    => /\ response.status = 200
       /\ response.hasRecommendations
       /\ response.recommendations = <<>>
       /\ "Error generating recommendations:" \notin errors

C10_Witness ==
  /\ pc = "done"
  /\ reply.kind = "null"
  /\ response.status = 200
  /\ response.recommendations = <<>>

----------------------------------------------------------------------------
(* Properties of the scrape endpoint (SpecScrape) *)

\* scrapeInstagramProfile has been called and has returned
ScraperReturned == spc \in {"analyze", "done"} /\ (failedStep # "none" \/ ~profileData.isNull)

\* C3: on every path by which scrapeInstagramProfile returns, the browser it
\* launched has been closed.
C3_BrowserClosedOnReturn ==
  (ScraperReturned /\ browser # "none") => browser = "closed"

\* C4: when a step of scrapeInstagramProfile fails (launch, navigation, selector
\* wait, evaluation of the links, a post, the biography, or the close), the
\* scraper returns null and the endpoint answers with the 404 error object
\* {error: "Failed to fetch Instagram data"}, never with a profile nor a 500.
C4_FailureIs404 ==
  (spc = "done" /\ failedStep # "none")
    => /\ profileData.isNull
       /\ scrapeResponse.status = 404
       /\ scrapeResponse.error = "Failed to fetch Instagram data"
       /\ ~scrapeResponse.hasProfile

C4_Witness ==
  /\ spc = "done"
  /\ failedStep = "post"
  /\ Len(posts) = 1
  /\ scrapeResponse.status = 404

UsernameRequired == ScrapeError("Username is required", 400)

\* C5 as stated: a request body with no username (absent or empty) is answered
\* with the 400 error object {error: "Username is required"}.
C5_NoUsernameIs400 ==
  (spc = "done" /\ (~body.hasUsername \/ body.username = ""))
    => scrapeResponse = UsernameRequired

\* C5 amended: a request body that is JSON other than null and has no username
\* (absent or empty) is answered with the 400 error object
\* {error: "Username is required"}; a body that is no JSON, or is null, makes
\* request.json() or the destructuring throw and is answered with the 500.
C5_JsonNoUsernameIs400 ==
  /\ (spc = "done" /\ body.kind = "json" /\ (~body.hasUsername \/ body.username = ""))
       => scrapeResponse = UsernameRequired
  /\ (spc = "done" /\ body.kind \in {"invalid", "null"})
       => scrapeResponse.status = 500

C5_Witness ==
  /\ spc = "done"
  /\ body.kind = "json"
  /\ body.hasUsername
  /\ body.username = ""
  /\ scrapeResponse.status = 400

\* the positions of caption where a hashtag starts: a "#" before a word character
HashtagStarts(caption) ==
  {i \in 1..(Len(caption) - 1) : caption[i] = "#" /\ IsWordChar(caption[i + 1])}

\* the last position of the run of word characters that follows position i
RunEnd(caption, i) ==
  CHOOSE j \in (i + 1)..Len(caption) :
    /\ \A k \in (i + 1)..j : IsWordChar(caption[k])
    /\ j = Len(caption) \/ ~IsWordChar(caption[j + 1])

Fold(c) == IF c = "B" THEN "b" ELSE c

\* the hashtag that starts at position i, without the sign, in lower case
FoldedTagAt(caption, i) == [k \in 1..(RunEnd(caption, i) - i) |-> Fold(caption[i + k])]

\* the folded hashtags of all the posts of a profile
FoldedTags(profile) ==
  UNION {{FoldedTagAt(profile.posts[p].caption, i) :
            i \in HashtagStarts(profile.posts[p].caption)} :
         p \in 1..Len(profile.posts)}

Occurrences(x, seq) == Cardinality({k \in 1..Len(seq) : seq[k] = x})

\* C7: in a 200 response of the scrape endpoint, every hashtag of every post's
\* caption is in interests, without its sign and in lower case, exactly once,
\* whatever its length.
C7_HashtagsInInterestsOnce ==
  scrapeResponse.status = 200
    => \A tag \in FoldedTags(scrapeResponse.profile) :
         Occurrences(tag, scrapeResponse.interests) = 1

C7_Witness ==
  /\ scrapeResponse.status = 200
  /\ Len(scrapeResponse.profile.posts) = 1
  /\ scrapeResponse.profile.posts[1].caption = <<"#", "a", "#", "B">>
  /\ scrapeResponse.interests = <<<<"a">>, <<"b">>>>

\* C8: keyword extraction keeps no word of length 3 or less: every entry of
\* interests of length 3 or less is a hashtag of some post.
C8_ShortInterestsAreHashtags ==
  scrapeResponse.status = 200
    => \A k \in 1..Len(scrapeResponse.interests) :
         Len(scrapeResponse.interests[k]) <= 3
           => scrapeResponse.interests[k] \in FoldedTags(scrapeResponse.profile)

C8_Witness ==
  /\ scrapeResponse.status = 200
  /\ scrapeResponse.profile.bio = <<"a", "B", "a">>
  /\ Len(scrapeResponse.profile.posts) = 1
  /\ scrapeResponse.profile.posts[1].caption = <<"B">>
  /\ scrapeResponse.interests = <<>>

====
